---- MODULE Spec2Model ----
(***************************************************************************)
(* Model of the multisig contract of sc-bridge-elrond                      *)
(* (src/multisig/src/lib.rs): user registry, roles and their counters,     *)
(* stake ledger, action log with signer lists, quorum counting and the     *)
(* executor.  Every endpoint is an operator from the contract storage and  *)
(* the call's arguments to a result [ok, st, ret]; an action of the state  *)
(* machine is one call of an endpoint, committed when it returns Ok and    *)
(* reverted when it returns an error.                                      *)
(***************************************************************************)
EXTENDS Integers, Sequences, FiniteSets, TLC

\* ------------------------------------------------------------------ bounds

\* Longest action log explored (propose is not called on a log this long).
MaxActions == 2

\* Largest staked balance explored where balances above the required stake
\* matter (stake is not called on a balance this large).
MaxStake == 2

\* ------------------------------------------------------------- input sets

\* The addresses that call the contract or are named in its actions.
Addr == {"a", "b"}

\* The account that deployed the contract (only_owner! compares with it).
Owner == "a"

NumAddr == Cardinality(Addr)

UserIds == 0..NumAddr

\* Action ids handed to sign, unsign, performAction and discardAction:
\* every slot of the log and one id past its longest extent.
ActionIds == 1..(MaxActions + 1)

\* Arguments of init.
InitBoards == {<<>>, <<"a">>, <<"b">>, <<"a", "b">>, <<"a", "a">>}

InitQuorums == 0..NumAddr

InitStakes == {<<1, 1>>, <<1, 2>>}

\* The address named in the proposed AddBoardMember, AddProposer, RemoveUser
\* and SlashUser actions: with the boards above it is a board member, the
\* only board member, or an address the contract has never seen.
Targets == {"b"}

\* Arguments of proposeChangeQuorum: one every board satisfies, one that a
\* board of two satisfies and a smaller board does not.
NewQuorums == {0, NumAddr}

\* Payments of stake and amounts of unstake.
Amounts == {1}

\* The batch ids and the fingerprints of batch contents that the callers pass
\* when they propose a batch, and the keys of the deduplication index.
BatchIds == {1, 2}

Fingerprints == {1, 2}

BatchKeys == BatchIds \X Fingerprints

\* ------------------------------------------------------------------ types

Roles == {"None", "Proposer", "BoardMember"}

NoAddr == "-"

Nothing == [kind |-> "Nothing", addr |-> NoAddr, n |-> 0]

AddBoardMember(address) == [kind |-> "AddBoardMember", addr |-> address, n |-> 0]

AddProposer(address) == [kind |-> "AddProposer", addr |-> address, n |-> 0]

RemoveUser(address) == [kind |-> "RemoveUser", addr |-> address, n |-> 0]

SlashUser(address) == [kind |-> "SlashUser", addr |-> address, n |-> 0]

ChangeQuorum(new_quorum) == [kind |-> "ChangeQuorum", addr |-> NoAddr, n |-> new_quorum]

\* A transfer batch: n is the batch id, fingerprint stands for the transfers.
BatchTransferTokens(batch_id, fingerprint) ==
    [kind |-> "BatchTransferTokens", addr |-> NoAddr, n |-> batch_id,
     fingerprint |-> fingerprint]

\* UserRole capabilities (user_role.rs): 0 = no rights, 1 = can propose,
\* but not sign, 2 = can propose and sign.
can_propose(role) == role \in {"Proposer", "BoardMember"}

can_perform_action(role) == role \in {"Proposer", "BoardMember"}

can_discard_action(role) == role \in {"Proposer", "BoardMember"}

can_sign(role) == role = "BoardMember"

\* Action::is_pending (action.rs): anything but Nothing.
is_pending(action) == action.kind # "Nothing"

\* Action::is_slash_user (action.rs).
is_slash_user(action) == action.kind = "SlashUser"

\* ---------------------------------------------------------------- storage

VARIABLES
    deployed,               \* init has run successfully
    quorum,
    user_ids,               \* user_mapper: address -> id, 0 = absent
    user_addresses,         \* user_mapper: id -> address
    user_count,             \* user_mapper: number of ids handed out
    user_id_to_role,        \* "user_role" storage: id -> role
    num_board_members,
    num_proposers,
    action_data,            \* action_mapper: the log, Nothing = cleared slot
    action_signer_ids,      \* action id -> list of signer ids
    required_stake_amount,
    slash_amount,
    amount_staked,          \* address -> staked balance
    slashed_tokens_amount,
    pause_status,
    batch_index             \* (batch id, fingerprint) -> action id, 0 = no entry

storage == <<quorum, user_ids, user_addresses, user_count, user_id_to_role,
             num_board_members, num_proposers, action_data, action_signer_ids,
             required_stake_amount, slash_amount, amount_staked,
             slashed_tokens_amount, pause_status, batch_index>>

vars == <<deployed, storage>>

\* The contract storage as one value, the argument and result of the endpoints.
Storage ==
    [quorum |-> quorum, user_ids |-> user_ids, user_addresses |-> user_addresses,
     user_count |-> user_count, user_id_to_role |-> user_id_to_role,
     num_board_members |-> num_board_members, num_proposers |-> num_proposers,
     action_data |-> action_data, action_signer_ids |-> action_signer_ids,
     required_stake_amount |-> required_stake_amount, slash_amount |-> slash_amount,
     amount_staked |-> amount_staked, slashed_tokens_amount |-> slashed_tokens_amount,
     pause_status |-> pause_status, batch_index |-> batch_index]

\* Storage of a freshly created account: every key reads as zero / empty.
EmptyStorage ==
    [quorum |-> 0, user_ids |-> [x \in Addr |-> 0],
     user_addresses |-> [i \in 1..NumAddr |-> NoAddr],
     user_count |-> 0, user_id_to_role |-> [i \in UserIds |-> "None"],
     num_board_members |-> 0, num_proposers |-> 0,
     action_data |-> <<>>, action_signer_ids |-> [i \in ActionIds |-> <<>>],
     required_stake_amount |-> 0, slash_amount |-> 0,
     amount_staked |-> [x \in Addr |-> 0], slashed_tokens_amount |-> 0,
     pause_status |-> FALSE, batch_index |-> [k \in BatchKeys |-> 0]]

Ok(S, ret) == [ok |-> TRUE, st |-> S, ret |-> ret]

Err(S) == [ok |-> FALSE, st |-> S, ret |-> 0]

\* ---------------------------------------------------------- user registry

\* UserMapper::get_user_id
get_user_id(S, address) == S.user_ids[address]

\* UserMapper::get_or_create_user: the id of the address, a fresh one
\* (user_count + 1) when it has none.
get_or_create_user(S, address) ==
    IF S.user_ids[address] # 0
    THEN [st |-> S, id |-> S.user_ids[address], new_user |-> FALSE]
    ELSE LET id == S.user_count + 1
         IN [st |-> [S EXCEPT !.user_count = id,
                               !.user_ids[address] = id,
                               !.user_addresses[id] = address],
             id |-> id, new_user |-> TRUE]

get_user_id_to_role(S, user_id) == S.user_id_to_role[user_id]

set_user_id_to_role(S, user_id, role) == [S EXCEPT !.user_id_to_role[user_id] = role]

user_role(S, address) ==
    LET user_id == get_user_id(S, address)
    IN IF user_id = 0 THEN "None" ELSE get_user_id_to_role(S, user_id)

\* ------------------------------------------------------------------- init

\* UserMapper::get_or_create_users with init's closure: every address of the
\* board gets (or already has) an id, an address met again is a duplicate,
\* and each id is made BoardMember.
RECURSIVE get_or_create_users(_, _, _)
get_or_create_users(acc, board, i) ==
    IF i > Len(board)
    THEN acc
    ELSE LET u == get_or_create_user(acc.st, board[i])
         IN get_or_create_users(
                [st |-> set_user_id_to_role(u.st, u.id, "BoardMember"),
                 duplicates |-> acc.duplicates \/ ~u.new_user],
                board, i + 1)

\* init as it would be without its check for duplicates.
init_allowing_duplicates(S, required_stake, slash, new_quorum, board) ==
    IF board = <<>> THEN Err(S)
    ELSE IF ~(new_quorum <= Len(board)) THEN Err(S)
    ELSE LET S1 == [S EXCEPT !.quorum = new_quorum]
             u == get_or_create_users([st |-> S1, duplicates |-> FALSE], board, 1)
             S2 == [u.st EXCEPT !.num_board_members = Len(board)]
         IN IF ~(slash <= required_stake) THEN Err(S2)
            ELSE Ok([S2 EXCEPT !.required_stake_amount = required_stake,
                               !.slash_amount = slash], 0)

init(S, required_stake, slash, new_quorum, board) ==
    IF board = <<>> THEN Err(S)
    ELSE IF ~(new_quorum <= Len(board)) THEN Err(S)
    ELSE LET S1 == [S EXCEPT !.quorum = new_quorum]
             u == get_or_create_users([st |-> S1, duplicates |-> FALSE], board, 1)
         IN IF u.duplicates THEN Err(u.st)
            ELSE LET S2 == [u.st EXCEPT !.num_board_members = Len(board)]
                 IN IF ~(slash <= required_stake) THEN Err(S2)
                    ELSE Ok([S2 EXCEPT !.required_stake_amount = required_stake,
                                       !.slash_amount = slash], 0)

\* ------------------------------------------------------ owner-only endpoints

pause(S, caller) ==
    IF caller # Owner THEN Err(S) ELSE Ok([S EXCEPT !.pause_status = TRUE], 0)

unpause(S, caller) ==
    IF caller # Owner THEN Err(S) ELSE Ok([S EXCEPT !.pause_status = FALSE], 0)

\* ------------------------------------------------------------ stake ledger

\* has_enough_stake as it would be if it compared the stake with zero.
has_any_stake(S, address) ==
    S.amount_staked[address] >= 0

has_enough_stake(S, address) ==
    S.amount_staked[address] >= S.required_stake_amount

\* stake as it would be if it let every role that can propose stake.
stake_by_proposers_too(S, caller, payment) ==
    IF ~can_propose(user_role(S, caller)) THEN Err(S)
    ELSE Ok([S EXCEPT !.amount_staked[caller] = @ + payment], 0)

stake(S, caller, payment) ==
    IF user_role(S, caller) # "BoardMember" THEN Err(S)
    ELSE Ok([S EXCEPT !.amount_staked[caller] = @ + payment], 0)

\* unstake as it would be without the check of the insurance a board member
\* must keep.
unstake_without_insurance(S, caller, amount) ==
    LET staked == S.amount_staked[caller]
        remaining_stake == staked - amount
    IN IF ~(amount <= staked) THEN Err(S)
       ELSE Ok([S EXCEPT !.amount_staked[caller] = remaining_stake], 0)

unstake(S, caller, amount) ==
    LET staked == S.amount_staked[caller]
        remaining_stake == staked - amount
    IN IF ~(amount <= staked) THEN Err(S)
       ELSE IF user_role(S, caller) = "BoardMember"
               /\ ~(remaining_stake >= S.required_stake_amount)
       THEN Err(S)
       ELSE Ok([S EXCEPT !.amount_staked[caller] = remaining_stake], 0)

\* ---------------------------------------------------- action log and signing

get_action_last_index(S) == Len(S.action_data)

\* VecMapper::item_is_empty_unchecked: the slot's storage is empty, which it
\* is past the end of the log and after clear_entry_unchecked.
item_is_empty_unchecked(S, action_id) ==
    \/ action_id > Len(S.action_data)
    \/ S.action_data[action_id] = Nothing

Contains(signer_ids, id) == \E i \in 1..Len(signer_ids) : signer_ids[i] = id

\* Iterator::position: the first index holding id, 0 for None.
Position(signer_ids, id) ==
    IF Contains(signer_ids, id)
    THEN CHOOSE i \in 1..Len(signer_ids) :
            /\ signer_ids[i] = id
            /\ \A j \in 1..(i - 1) : signer_ids[j] # id
    ELSE 0

\* Vec::swap_remove: the last element takes the place of the removed one.
swap_remove(signer_ids, pos) ==
    LET n == Len(signer_ids)
    IN SubSeq([signer_ids EXCEPT ![pos] = signer_ids[n]], 1, n - 1)

\* sign as it would be if it pushed the caller's id without looking for it.
sign_always_pushes(S, caller, action_id) ==
    LET caller_id == get_user_id(S, caller)
        caller_role == get_user_id_to_role(S, caller_id)
        signer_ids == S.action_signer_ids[action_id]
    IN IF item_is_empty_unchecked(S, action_id) THEN Err(S)
       ELSE IF ~can_sign(caller_role) THEN Err(S)
       ELSE IF ~has_enough_stake(S, caller) THEN Err(S)
       ELSE Ok([S EXCEPT !.action_signer_ids[action_id] =
                    Append(signer_ids, caller_id)], 0)

\* sign as it would be without its role check.
sign_without_role_check(S, caller, action_id) ==
    LET caller_id == get_user_id(S, caller)
        signer_ids == S.action_signer_ids[action_id]
    IN IF item_is_empty_unchecked(S, action_id) THEN Err(S)
       ELSE IF ~has_enough_stake(S, caller) THEN Err(S)
       ELSE Ok([S EXCEPT !.action_signer_ids[action_id] =
                    IF ~Contains(signer_ids, caller_id)
                    THEN Append(signer_ids, caller_id)
                    ELSE signer_ids], 0)

sign(S, caller, action_id) ==
    LET caller_id == get_user_id(S, caller)
        caller_role == get_user_id_to_role(S, caller_id)
        signer_ids == S.action_signer_ids[action_id]
    IN IF item_is_empty_unchecked(S, action_id) THEN Err(S)
       ELSE IF ~can_sign(caller_role) THEN Err(S)
       ELSE IF ~has_enough_stake(S, caller) THEN Err(S)
       ELSE Ok([S EXCEPT !.action_signer_ids[action_id] =
                    IF ~Contains(signer_ids, caller_id)
                    THEN Append(signer_ids, caller_id)
                    ELSE signer_ids], 0)

unsign(S, caller, action_id) ==
    LET caller_id == get_user_id(S, caller)
        caller_role == get_user_id_to_role(S, caller_id)
        signer_ids == S.action_signer_ids[action_id]
        signer_pos == Position(signer_ids, caller_id)
    IN IF item_is_empty_unchecked(S, action_id) THEN Err(S)
       ELSE IF ~can_sign(caller_role) THEN Err(S)
       ELSE IF ~has_enough_stake(S, caller) THEN Err(S)
       ELSE Ok([S EXCEPT !.action_signer_ids[action_id] =
                    IF signer_pos # 0
                    THEN swap_remove(signer_ids, signer_pos)
                    ELSE signer_ids], 0)

\* propose_action as it would be if it signed for every caller.
propose_action_signing_always(S, caller, action) ==
    LET caller_id == get_user_id(S, caller)
        caller_role == get_user_id_to_role(S, caller_id)
        action_id == Len(S.action_data) + 1
        S1 == [S EXCEPT !.action_data = Append(@, action)]
    IN IF ~can_propose(caller_role) THEN Err(S)
       ELSE Ok([S1 EXCEPT !.action_signer_ids[action_id] = <<caller_id>>], action_id)

\* propose_action as it would be if it never signed for the caller.
propose_action_without_sign(S, caller, action) ==
    LET caller_id == get_user_id(S, caller)
        caller_role == get_user_id_to_role(S, caller_id)
        action_id == Len(S.action_data) + 1
        S1 == [S EXCEPT !.action_data = Append(@, action)]
    IN IF ~can_propose(caller_role) THEN Err(S)
       ELSE Ok(S1, action_id)

propose_action(S, caller, action) ==
    LET caller_id == get_user_id(S, caller)
        caller_role == get_user_id_to_role(S, caller_id)
        action_id == Len(S.action_data) + 1
        S1 == [S EXCEPT !.action_data = Append(@, action)]
    IN IF ~can_propose(caller_role) THEN Err(S)
       ELSE IF can_sign(caller_role)
       THEN Ok([S1 EXCEPT !.action_signer_ids[action_id] = <<caller_id>>], action_id)
       ELSE Ok(S1, action_id)

propose_slash_user(S, caller, user_address) ==
    IF user_role(S, user_address) # "BoardMember" THEN Err(S)
    ELSE propose_action(S, caller, SlashUser(user_address))

propose_add_board_member(S, caller, address) ==
    propose_action(S, caller, AddBoardMember(address))

propose_add_proposer(S, caller, address) ==
    propose_action(S, caller, AddProposer(address))

propose_remove_user(S, caller, address) ==
    propose_action(S, caller, RemoveUser(address))

propose_change_quorum(S, caller, new_quorum) ==
    propose_action(S, caller, ChangeQuorum(new_quorum))

\* ------------------------------------------------------------ quorum engine

get_action_signer_count(S, action_id) == Len(S.action_signer_ids[action_id])

\* The valid signer count as it would be if it did not look at the roles.
count_all_signers(S, action_id) == Len(S.action_signer_ids[action_id])

\* The valid signer count as it would be if it also asked for the stake that
\* sign asks for.
count_staked_signers(S, action_id) ==
    LET signer_ids == S.action_signer_ids[action_id]
    IN Cardinality({i \in 1..Len(signer_ids) :
                        /\ can_sign(get_user_id_to_role(S, signer_ids[i]))
                        /\ has_enough_stake(S, S.user_addresses[signer_ids[i]])})

get_action_valid_signer_count(S, action_id) ==
    LET signer_ids == S.action_signer_ids[action_id]
    IN Cardinality({i \in 1..Len(signer_ids) :
                        can_sign(get_user_id_to_role(S, signer_ids[i]))})

quorum_reached(S, action_id) ==
    get_action_valid_signer_count(S, action_id) >= S.quorum

\* ----------------------------------------------------------------- executor

\* change_user_role as it would be if it kept only the board size in step.
change_user_role_board_only(S, user_address, new_role) ==
    LET u == get_or_create_user(S, user_address)
        old_role == IF u.id = 0 THEN "None" ELSE get_user_id_to_role(u.st, u.id)
        S1 == set_user_id_to_role(u.st, u.id, new_role)
    IN IF old_role = "BoardMember"
       THEN (IF new_role # "BoardMember"
             THEN [S1 EXCEPT !.num_board_members = @ - 1] ELSE S1)
       ELSE (IF new_role = "BoardMember"
             THEN [S1 EXCEPT !.num_board_members = @ + 1] ELSE S1)

\* change_user_role as it would be if a user whose role becomes None were
\* deleted from the user mapper.
change_user_role_deleting(S, user_address, new_role) ==
    LET u == get_or_create_user(S, user_address)
        old_role == IF u.id = 0 THEN "None" ELSE get_user_id_to_role(u.st, u.id)
        S0 == set_user_id_to_role(u.st, u.id, new_role)
        S1 == IF new_role = "None"
              THEN [S0 EXCEPT !.user_ids[user_address] = 0] ELSE S0
        S2 == IF old_role = "BoardMember"
              THEN (IF new_role # "BoardMember"
                    THEN [S1 EXCEPT !.num_board_members = @ - 1] ELSE S1)
              ELSE (IF new_role = "BoardMember"
                    THEN [S1 EXCEPT !.num_board_members = @ + 1] ELSE S1)
    IN IF old_role = "Proposer"
       THEN (IF new_role # "Proposer"
             THEN [S2 EXCEPT !.num_proposers = @ - 1] ELSE S2)
       ELSE (IF new_role = "Proposer"
             THEN [S2 EXCEPT !.num_proposers = @ + 1] ELSE S2)

\* Creates the user when new, writes the role and keeps num_board_members
\* and num_proposers in step with the old and the new role.
change_user_role(S, user_address, new_role) ==
    LET u == get_or_create_user(S, user_address)
        old_role == IF u.id = 0 THEN "None" ELSE get_user_id_to_role(u.st, u.id)
        S1 == set_user_id_to_role(u.st, u.id, new_role)
        S2 == IF old_role = "BoardMember"
              THEN (IF new_role # "BoardMember"
                    THEN [S1 EXCEPT !.num_board_members = @ - 1] ELSE S1)
              ELSE (IF new_role = "BoardMember"
                    THEN [S1 EXCEPT !.num_board_members = @ + 1] ELSE S1)
    IN IF old_role = "Proposer"
       THEN (IF new_role # "Proposer"
             THEN [S2 EXCEPT !.num_proposers = @ - 1] ELSE S2)
       ELSE (IF new_role = "Proposer"
             THEN [S2 EXCEPT !.num_proposers = @ + 1] ELSE S2)

\* clear_action as it would be if it emptied the slot alone.
clear_entry_only(S, action_id) ==
    [S EXCEPT !.action_data =
                  IF action_id <= Len(@) THEN [@ EXCEPT ![action_id] = Nothing] ELSE @]

\* clear_action as it would be if it emptied the signer list alone.
clear_signers_only(S, action_id) ==
    [S EXCEPT !.action_signer_ids[action_id] = <<>>]

\* VecMapper::clear_entry_unchecked and the signer list's clear(); past the
\* end of the log there is no slot to empty.
clear_action(S, action_id) ==
    [S EXCEPT !.action_data =
                  IF action_id <= Len(@) THEN [@ EXCEPT ![action_id] = Nothing] ELSE @,
              !.action_signer_ids[action_id] = <<>>]

\* The arms of perform_action's match, each applied to the storage after
\* clear_action.  Each returns the storage as the code left it when it
\* returned, also when it returned an error.

perform_add_board_member(S, board_member_address) ==
    Ok(change_user_role(S, board_member_address, "BoardMember"), 0)

perform_add_proposer(S, proposer_address) ==
    LET S2 == change_user_role(S, proposer_address, "Proposer")
    IN IF ~(S2.quorum <= S2.num_board_members) THEN Err(S2)
       ELSE Ok(S2, 0)

\* The RemoveUser arm as it would be without its quorum check.
perform_remove_user_unchecked(S, user_address) ==
    LET S2 == change_user_role(S, user_address, "None")
    IN IF ~(S2.num_board_members + S2.num_proposers > 0) THEN Err(S2)
       ELSE Ok(S2, 0)

perform_remove_user(S, user_address) ==
    LET S2 == change_user_role(S, user_address, "None")
    IN IF ~(S2.num_board_members + S2.num_proposers > 0) THEN Err(S2)
       ELSE IF ~(S2.quorum <= S2.num_board_members) THEN Err(S2)
       ELSE Ok(S2, 0)

\* The SlashUser arm as it would be without its check that a board member or
\* a proposer is left.
perform_slash_user_leaving_none(S, user_address, wraps) ==
    LET S2 == change_user_role(S, user_address, "None")
        user_stake == S2.amount_staked[user_address] - S2.slash_amount
    IN IF ~(S2.quorum <= S2.num_board_members) THEN Err(S2)
       ELSE IF user_stake < 0 /\ ~wraps THEN Err(S2)
       ELSE Ok([S2 EXCEPT !.amount_staked[user_address] = user_stake,
                          !.slashed_tokens_amount = @ + S2.slash_amount], 0)

\* The SlashUser arm as it would be if it forgot the pool of slashed tokens.
perform_slash_user_without_pool(S, user_address, wraps) ==
    LET S2 == change_user_role(S, user_address, "None")
        user_stake == S2.amount_staked[user_address] - S2.slash_amount
    IN IF ~(S2.num_board_members + S2.num_proposers > 0) THEN Err(S2)
       ELSE IF ~(S2.quorum <= S2.num_board_members) THEN Err(S2)
       ELSE IF user_stake < 0 /\ ~wraps THEN Err(S2)
       ELSE Ok([S2 EXCEPT !.amount_staked[user_address] = user_stake], 0)

\* user_stake -= slash_amount on a BigUint smaller than slash_amount either
\* aborts the call or leaves the difference behind, depending on the build:
\* wraps says which.
perform_slash_user(S, user_address, wraps) ==
    LET S2 == change_user_role(S, user_address, "None")
        user_stake == S2.amount_staked[user_address] - S2.slash_amount
    IN IF ~(S2.num_board_members + S2.num_proposers > 0) THEN Err(S2)
       ELSE IF ~(S2.quorum <= S2.num_board_members) THEN Err(S2)
       ELSE IF user_stake < 0 /\ ~wraps THEN Err(S2)
       ELSE Ok([S2 EXCEPT !.amount_staked[user_address] = user_stake,
                          !.slashed_tokens_amount = @ + S2.slash_amount], 0)

\* The ChangeQuorum arm as it would be without its check of the board size.
perform_change_quorum_unchecked(S, new_quorum) ==
    Ok([S EXCEPT !.quorum = new_quorum], 0)

perform_change_quorum(S, new_quorum) ==
    IF ~(new_quorum <= S.num_board_members) THEN Err(S)
    ELSE Ok([S EXCEPT !.quorum = new_quorum], 0)

\* perform_action as it would be without its pause check.
perform_action_ignoring_pause(S, action_id, wraps) ==
    IF action_id > Len(S.action_data) THEN Err(S)
    ELSE
    LET action == S.action_data[action_id]
        S1 == clear_action(S, action_id)
    IN CASE action.kind = "Nothing" -> Ok(S1, 0)
         [] action.kind = "AddBoardMember" -> perform_add_board_member(S1, action.addr)
         [] action.kind = "AddProposer" -> perform_add_proposer(S1, action.addr)
         [] action.kind = "RemoveUser" -> perform_remove_user(S1, action.addr)
         [] action.kind = "SlashUser" -> perform_slash_user(S1, action.addr, wraps)
         [] action.kind = "ChangeQuorum" -> perform_change_quorum(S1, action.n)

\* action_mapper().get(action_id) fails past the end of the log (index out of
\* range) and reads a cleared slot as Action::Nothing.
perform_action(S, action_id, wraps) ==
    IF action_id > Len(S.action_data) THEN Err(S)
    ELSE
    LET action == S.action_data[action_id]
        S1 == clear_action(S, action_id)
    IN IF S.pause_status /\ ~is_slash_user(action) THEN Err(S)
       ELSE CASE action.kind = "Nothing" -> Ok(S1, 0)
              [] action.kind = "AddBoardMember" -> perform_add_board_member(S1, action.addr)
              [] action.kind = "AddProposer" -> perform_add_proposer(S1, action.addr)
              [] action.kind = "RemoveUser" -> perform_remove_user(S1, action.addr)
              [] action.kind = "SlashUser" -> perform_slash_user(S1, action.addr, wraps)
              [] action.kind = "ChangeQuorum" -> perform_change_quorum(S1, action.n)

perform_action_endpoint(S, caller, action_id, wraps) ==
    LET caller_id == get_user_id(S, caller)
        caller_role == get_user_id_to_role(S, caller_id)
    IN IF ~can_perform_action(caller_role) THEN Err(S)
       ELSE IF ~quorum_reached(S, action_id) THEN Err(S)
       ELSE perform_action(S, action_id, wraps)

\* discard_action as it would be if it looked at the raw signer count.
discard_action_counting_all(S, caller, action_id) ==
    LET caller_id == get_user_id(S, caller)
        caller_role == get_user_id_to_role(S, caller_id)
    IN IF ~can_discard_action(caller_role) THEN Err(S)
       ELSE IF get_action_signer_count(S, action_id) # 0 THEN Err(S)
       ELSE Ok(clear_action(S, action_id), 0)

discard_action(S, caller, action_id) ==
    LET caller_id == get_user_id(S, caller)
        caller_role == get_user_id_to_role(S, caller_id)
    IN IF ~can_discard_action(caller_role) THEN Err(S)
       ELSE IF get_action_valid_signer_count(S, action_id) # 0 THEN Err(S)
       ELSE Ok(clear_action(S, action_id), 0)

\* ---------------------------------------------------------- state machine

\* What a call would leave behind if the writes of a failed call were kept.
keep_writes(S, r) == r.st

\* What a call leaves behind: the storage its endpoint returned with Ok, the
\* storage from before the call when the endpoint returned an error (the host
\* drops every write of a failed call).
Committed(S, r) == IF r.ok THEN r.st ELSE S

\* One call, as a step: the storage becomes what the call leaves behind.  A
\* call that leaves the storage as it was is a stuttering step.
Call(r) ==
    \E T \in {Committed(Storage, r)} :
       /\ T # Storage
       /\ quorum' = T.quorum
       /\ user_ids' = T.user_ids
       /\ user_addresses' = T.user_addresses
       /\ user_count' = T.user_count
       /\ user_id_to_role' = T.user_id_to_role
       /\ num_board_members' = T.num_board_members
       /\ num_proposers' = T.num_proposers
       /\ action_data' = T.action_data
       /\ action_signer_ids' = T.action_signer_ids
       /\ required_stake_amount' = T.required_stake_amount
       /\ slash_amount' = T.slash_amount
       /\ amount_staked' = T.amount_staked
       /\ slashed_tokens_amount' = T.slashed_tokens_amount
       /\ pause_status' = T.pause_status
       /\ batch_index' = T.batch_index

Init ==
    /\ deployed = FALSE
    /\ quorum = EmptyStorage.quorum
    /\ user_ids = EmptyStorage.user_ids
    /\ user_addresses = EmptyStorage.user_addresses
    /\ user_count = EmptyStorage.user_count
    /\ user_id_to_role = EmptyStorage.user_id_to_role
    /\ num_board_members = EmptyStorage.num_board_members
    /\ num_proposers = EmptyStorage.num_proposers
    /\ action_data = EmptyStorage.action_data
    /\ action_signer_ids = EmptyStorage.action_signer_ids
    /\ required_stake_amount = EmptyStorage.required_stake_amount
    /\ slash_amount = EmptyStorage.slash_amount
    /\ amount_staked = EmptyStorage.amount_staked
    /\ slashed_tokens_amount = EmptyStorage.slashed_tokens_amount
    /\ pause_status = EmptyStorage.pause_status
    /\ batch_index = EmptyStorage.batch_index

\* The deployment: init runs once, on the account's empty storage.
Deploy ==
    /\ ~deployed
    /\ \E board \in InitBoards, q \in InitQuorums, s \in InitStakes :
          LET r == init(Storage, s[1], s[2], q, board)
          IN /\ deployed' = r.ok
             /\ Call(r)

Pause ==
    /\ deployed
    /\ \E caller \in Addr : Call(pause(Storage, caller))
    /\ UNCHANGED deployed

Unpause ==
    /\ deployed
    /\ \E caller \in Addr : Call(unpause(Storage, caller))
    /\ UNCHANGED deployed

Stake ==
    /\ deployed
    /\ \E caller \in Addr, payment \in Amounts :
          /\ amount_staked[caller] < required_stake_amount
          /\ Call(stake(Storage, caller, payment))
    /\ UNCHANGED deployed

Unstake ==
    /\ deployed
    /\ \E caller \in Addr, amount \in Amounts :
          Call(unstake(Storage, caller, amount))
    /\ UNCHANGED deployed

\* The ids a caller passes: every slot of the log and the first id past it.
CallIds == 1..(Len(action_data) + 1)

Sign ==
    /\ deployed
    /\ \E caller \in Addr, action_id \in CallIds :
          Call(sign(Storage, caller, action_id))
    /\ UNCHANGED deployed

Unsign ==
    /\ deployed
    /\ \E caller \in Addr, action_id \in CallIds :
          Call(unsign(Storage, caller, action_id))
    /\ UNCHANGED deployed

\* One of the propose endpoints, named by the kind of action it proposes.
propose(S, caller, action) ==
    CASE action.kind = "AddBoardMember" -> propose_add_board_member(S, caller, action.addr)
      [] action.kind = "AddProposer" -> propose_add_proposer(S, caller, action.addr)
      [] action.kind = "RemoveUser" -> propose_remove_user(S, caller, action.addr)
      [] action.kind = "SlashUser" -> propose_slash_user(S, caller, action.addr)
      [] action.kind = "ChangeQuorum" -> propose_change_quorum(S, caller, action.n)

Proposals ==
    {AddBoardMember(x) : x \in Targets} \cup {AddProposer(x) : x \in Targets}
        \cup {RemoveUser(x) : x \in Targets} \cup {SlashUser(x) : x \in Targets}
        \cup {ChangeQuorum(n) : n \in NewQuorums}

Propose ==
    /\ deployed
    /\ Len(action_data) < MaxActions
    /\ \E caller \in Addr, action \in Proposals :
          Call(propose(Storage, caller, action))
    /\ UNCHANGED deployed

PerformAction ==
    /\ deployed
    /\ \E caller \in Addr, action_id \in CallIds, wraps \in BOOLEAN :
          Call(perform_action_endpoint(Storage, caller, action_id, wraps))
    /\ UNCHANGED deployed

DiscardAction ==
    /\ deployed
    /\ \E caller \in Addr, action_id \in CallIds :
          Call(discard_action(Storage, caller, action_id))
    /\ UNCHANGED deployed

Next ==
    \/ Deploy
    \/ Pause
    \/ Unpause
    \/ Stake
    \/ Unstake
    \/ Sign
    \/ Unsign
    \/ Propose
    \/ PerformAction
    \/ DiscardAction

Spec == Init /\ [][Next]_vars

\* ------------------------------------------------- what the claims speak of

RoleOf(address) ==
    IF user_ids[address] = 0 THEN "None" ELSE user_id_to_role[user_ids[address]]

RegisteredIds == 1..user_count

IsPendingId(action_id) ==
    /\ action_id \in 1..Len(action_data)
    /\ action_data[action_id] # Nothing

IsClearedId(action_id) ==
    /\ action_id \in 1..Len(action_data)
    /\ action_data[action_id] = Nothing

SignerSet(action_id) ==
    {action_signer_ids[action_id][i] : i \in 1..Len(action_signer_ids[action_id])}

\* The signers of the action that are board members now.
ValidSigners(action_id) ==
    {u \in SignerSet(action_id) : user_id_to_role[u] = "BoardMember"}

\* The contract while its owner never pauses it.  pause_status is read by
\* perform_action alone, where it only adds an error, so these behaviours
\* reach every storage (pause_status aside) that the behaviours of Spec reach.
NextUnpaused ==
    \/ Deploy
    \/ Stake
    \/ Unstake
    \/ Sign
    \/ Unsign
    \/ Propose
    \/ PerformAction
    \/ DiscardAction

UnpausedSpec == Init /\ [][NextUnpaused]_vars

\* In the formulas below "\A r \in {e} : F" names the value of e as r in F.

\* A performAction call and its result in the current state.
PerformCalls == Addr \X ActionIds \X BOOLEAN

PerformResult(c) == perform_action_endpoint(Storage, c[1], c[2], c[3])

\* ----------------------------------------------------------------------- C1

\* C1: in every state reached after a successful init, whatever calls were
\* made since, the stored quorum is at most num_board_members.
C1_QuorumWithinBoard == deployed => quorum <= num_board_members

\* An executed removal has shrunk the board down to exactly the quorum.
C1_Witness ==
    /\ deployed
    /\ \E id \in ActionIds : IsClearedId(id)
    /\ \E x \in Addr : user_ids[x] # 0 /\ RoleOf(x) = "None"
    /\ quorum >= 1
    /\ quorum = num_board_members

\* ----------------------------------------------------------------------- C2

\* C2: after every completed operation num_board_members is the number of
\* registered users whose role is BoardMember and num_proposers the number
\* of registered users whose role is Proposer.
C2_CountersMatchRoles ==
    /\ num_board_members =
          Cardinality({u \in RegisteredIds : user_id_to_role[u] = "BoardMember"})
    /\ num_proposers =
          Cardinality({u \in RegisteredIds : user_id_to_role[u] = "Proposer"})

\* Executed actions have made one user a proposer while another sits on the board.
C2_Witness ==
    /\ deployed
    /\ \E id \in ActionIds : IsClearedId(id)
    /\ num_proposers = 1
    /\ num_board_members = 1

\* ----------------------------------------------------------------------- C3

\* C3: performAction(id) succeeds only if the signers of id that are board
\* members at the time of the call number at least the quorum stored at that
\* time; and a step that takes the BoardMember role from a signer of id,
\* leaving the signer list of id as it was, lowers the valid signer count of id.
C3_EligibilityAtPerformTime ==
    /\ [](\A c \in PerformCalls :
            PerformResult(c).ok => Cardinality(ValidSigners(c[2])) >= quorum)
    /\ [][\A id \in ActionIds : \A u \in SignerSet(id) :
            (/\ action_signer_ids'[id] = action_signer_ids[id]
             /\ user_id_to_role[u] = "BoardMember"
             /\ user_id_to_role'[u] # "BoardMember")
            => /\ Cardinality(ValidSigners(id)') < Cardinality(ValidSigners(id))
               /\ get_action_valid_signer_count(Storage, id)'
                     < get_action_valid_signer_count(Storage, id)]_vars

\* A pending action carries the signature of a user who is no longer a board
\* member; with that signature it would reach the quorum, without it no
\* caller can perform it.
C3_Witness ==
    \E id \in ActionIds :
        /\ IsPendingId(id)
        /\ \E u \in SignerSet(id) : user_id_to_role[u] # "BoardMember"
        /\ Cardinality(SignerSet(id)) >= quorum
        /\ Cardinality(ValidSigners(id)) < quorum
        /\ \A c \in PerformCalls : c[2] = id => ~PerformResult(c).ok

\* ----------------------------------------------------------------------- C4

\* C4: every signature that the valid signer count counts belongs to a user
\* who is a board member and whose staked balance is at least
\* required_stake_amount, whether sign or propose put it there.
C4_CountedSignersAreStaked ==
    \A id \in ActionIds : \A u \in ValidSigners(id) :
        /\ user_id_to_role[u] = "BoardMember"
        /\ amount_staked[user_addresses[u]] >= required_stake_amount

\* ----------------------------------------------------------------------- C5

C6_LogAppendOnly ==
    /\ [](/\ \A caller \in Addr : \A action \in Proposals :
                LET r == propose(Storage, caller, action)
                IN r.ok => /\ r.ret = get_action_last_index(Storage) + 1
                           /\ r.ret >= 1
                           /\ r.st.action_data = Append(action_data, action)
          /\ \A c \in PerformCalls :
                LET r == PerformResult(c)
                IN /\ (r.ok /\ IsPendingId(c[2])) => r.st.action_data[c[2]] = Nothing
                   /\ (r.ok /\ ~IsPendingId(c[2])) => r.st = Storage
          /\ \A caller \in Addr : \A id \in ActionIds :
                LET r == discard_action(Storage, caller, id)
                IN (r.ok /\ IsPendingId(id)) => r.st.action_data[id] = Nothing)
    /\ [][/\ Len(action_data') >= Len(action_data)
          /\ Len(action_data') <= Len(action_data) + 1
          /\ \A id \in 1..Len(action_data) :
                action_data[id] = Nothing => action_data'[id] = Nothing]_vars

\* The log holds an emptied slot followed by a pending action.
C6_Witness ==
    \E i, j \in ActionIds : i < j /\ IsClearedId(i) /\ IsPendingId(j)

\* ----------------------------------------------------------------------- C7

\* C7: performAction(id) returns an error whenever id is not a pending action
\* (never proposed, or emptied by an execution or a discard), whatever the
\* stored quorum.
C7_PerformOfNonPendingFails ==
    \A c \in PerformCalls : ~IsPendingId(c[2]) => ~PerformResult(c).ok

\* ----------------------------------------------------------------------- C8

\* C8: no staked balance is ever negative, and a SlashUser action that a call
\* can execute names an address whose staked balance is at least slash_amount.
C8_StakeNeverNegative ==
    /\ \A x \in Addr : amount_staked[x] >= 0
    /\ \A c \in PerformCalls :
          (/\ IsPendingId(c[2])
           /\ action_data[c[2]].kind = "SlashUser"
           /\ PerformResult(c).ok)
          => amount_staked[action_data[c[2]].addr] >= slash_amount

\* ----------------------------------------------------------------------- C9

\* C9: while the pause flag is set a performAction call succeeds only on a
\* pending SlashUser action, a call on any other pending action returns an
\* error and leaves it pending, and a step taken with the flag set keeps the
\* quorum and changes roles only by executing a SlashUser action, which takes
\* the role of the address it names.
C9_PausedOnlySlash ==
    /\ [](pause_status =>
            \A c \in PerformCalls :
                LET r == PerformResult(c)
                IN /\ r.ok => (IsPendingId(c[2]) /\ action_data[c[2]].kind = "SlashUser")
                   /\ (IsPendingId(c[2]) /\ action_data[c[2]].kind # "SlashUser")
                        => (~r.ok /\ Committed(Storage, r).action_data[c[2]]
                                        = action_data[c[2]]))
    /\ [][pause_status =>
            /\ quorum' = quorum
            /\ user_id_to_role' # user_id_to_role =>
                  \E id \in ActionIds :
                      /\ IsPendingId(id)
                      /\ action_data[id].kind = "SlashUser"
                      /\ action_data'[id] = Nothing
                      /\ user_id_to_role' =
                            [user_id_to_role EXCEPT
                                ![user_ids'[action_data[id].addr]] = "None"]]_vars

\* The contract is paused over a pending action of full quorum that is no
\* SlashUser, next to an emptied slot.
C9_Witness ==
    /\ pause_status
    /\ \E id \in ActionIds :
          /\ IsPendingId(id)
          /\ action_data[id].kind # "SlashUser"
          /\ quorum_reached(Storage, id)
          /\ quorum >= 1
    /\ \E id \in ActionIds : IsClearedId(id)

\* ---------------------------------------------------------------------- C10

AddsNoSigner(r) ==
    \A id \in ActionIds :
        {r.st.action_signer_ids[id][i] : i \in 1..Len(r.st.action_signer_ids[id])}
            \subseteq SignerSet(id)

\* C10: a propose, performAction or discardAction call succeeds only for a
\* caller whose role is Proposer or BoardMember, a sign or unsign call only
\* for a caller whose role is BoardMember, and no call of a Proposer adds an
\* id to a signer list.
C10_RoleGating ==
    \A caller \in Addr :
        /\ \A action \in Proposals :
              LET r == propose(Storage, caller, action)
              IN /\ r.ok => RoleOf(caller) \in {"Proposer", "BoardMember"}
                 /\ (r.ok /\ RoleOf(caller) = "Proposer") => AddsNoSigner(r)
        /\ \A id \in ActionIds :
              /\ \A wraps \in BOOLEAN :
                    LET r == perform_action_endpoint(Storage, caller, id, wraps)
                    IN /\ r.ok => RoleOf(caller) \in {"Proposer", "BoardMember"}
                       /\ (r.ok /\ RoleOf(caller) = "Proposer") => AddsNoSigner(r)
              /\ discard_action(Storage, caller, id).ok
                    => RoleOf(caller) \in {"Proposer", "BoardMember"}
              /\ sign(Storage, caller, id).ok => RoleOf(caller) = "BoardMember"
              /\ unsign(Storage, caller, id).ok => RoleOf(caller) = "BoardMember"

\* A proposer with enough stake to pass sign's stake check faces a pending
\* action that it proposed itself (no board member has signed it) and cannot
\* sign it, while a board member can.
C10_Witness ==
    \E x \in Addr : \E id \in ActionIds :
        /\ RoleOf(x) = "Proposer"
        /\ has_enough_stake(Storage, x)
        /\ IsPendingId(id)
        /\ action_signer_ids[id] = <<>>
        /\ ~sign(Storage, x, id).ok
        /\ \E y \in Addr : sign(Storage, y, id).ok

\* ---------------------------------------------------------------------- C11

SignersAfter(r, action_id) ==
    {r.st.action_signer_ids[action_id][i] :
        i \in 1..Len(r.st.action_signer_ids[action_id])}

\* C11: sign and unsign return an error, and leave every signer list as it
\* was, when the action id is not pending or when the caller's staked balance
\* is below required_stake_amount, a caller who is a board member included.
C11_SignNeedsPendingAndStake ==
    \A caller \in Addr : \A id \in ActionIds :
        (~IsPendingId(id) \/ amount_staked[caller] < required_stake_amount) =>
            \A rs \in {sign(Storage, caller, id)} :
            \A ru \in {unsign(Storage, caller, id)} :
               /\ ~rs.ok
               /\ ~ru.ok
               /\ Committed(Storage, rs).action_signer_ids = action_signer_ids
               /\ Committed(Storage, ru).action_signer_ids = action_signer_ids

\* A board member below the required stake cannot withdraw the signature that
\* its own propose left on a pending action, and a board member with the
\* required stake cannot sign an emptied slot.
C11_Witness ==
    /\ \E x \in Addr : \E id \in ActionIds :
          /\ RoleOf(x) = "BoardMember"
          /\ amount_staked[x] < required_stake_amount
          /\ IsPendingId(id)
          /\ user_ids[x] \in SignerSet(id)
          /\ ~unsign(Storage, x, id).ok
          /\ ~sign(Storage, x, id).ok
    /\ \E y \in Addr : \E id \in ActionIds :
          /\ RoleOf(y) = "BoardMember"
          /\ has_enough_stake(Storage, y)
          /\ IsClearedId(id)
          /\ ~sign(Storage, y, id).ok

\* ---------------------------------------------------------------------- C12

\* C12 as stated: for a caller that can sign a pending action, signing twice
\* gives the signer set of signing once, a successful unsign by a caller who
\* is not in the signer set changes nothing, and sign followed by unsign by
\* the same caller gives back the signer set from before the sign.
C12_SignUnsignRestores ==
    \A caller \in Addr : \A id \in ActionIds :
        \A r1 \in {sign(Storage, caller, id)} :
        \A ru \in {unsign(Storage, caller, id)} :
           /\ r1.ok =>
                \A r2 \in {sign(r1.st, caller, id)} :
                \A r3 \in {unsign(r1.st, caller, id)} :
                   /\ r2.ok /\ SignersAfter(r2, id) = SignersAfter(r1, id)
                   /\ r3.ok /\ SignersAfter(r3, id) = SignerSet(id)
           /\ (ru.ok /\ user_ids[caller] \notin SignerSet(id)) => ru.st = Storage

\* C12, amended: signing twice gives the signer set of signing once (the old
\* set with the caller's id), a successful unsign by a caller who is not in
\* the signer set changes nothing, and sign followed by unsign by the same
\* caller leaves the old signer set without the caller's id: the set from
\* before the sign exactly when the caller had not signed yet.  No other
\* action's signer list changes.
C12_SignIdempotentUnsignRemoves ==
    \A caller \in Addr : \A id \in ActionIds :
        \A r1 \in {sign(Storage, caller, id)} :
        \A ru \in {unsign(Storage, caller, id)} :
           /\ r1.ok =>
                \A r2 \in {sign(r1.st, caller, id)} :
                \A r3 \in {unsign(r1.st, caller, id)} :
                   /\ SignersAfter(r1, id) = SignerSet(id) \cup {user_ids[caller]}
                   /\ r2.ok /\ SignersAfter(r2, id) = SignersAfter(r1, id)
                   /\ r3.ok /\ SignersAfter(r3, id) = SignerSet(id) \ {user_ids[caller]}
                   /\ user_ids[caller] \notin SignerSet(id)
                         => SignersAfter(r3, id) = SignerSet(id)
                   /\ \A other \in ActionIds \ {id} :
                         /\ r2.st.action_signer_ids[other] = action_signer_ids[other]
                         /\ r3.st.action_signer_ids[other] = action_signer_ids[other]
           /\ (ru.ok /\ user_ids[caller] \notin SignerSet(id)) => ru.st = Storage

\* A pending action signed by one board member, which that member and a
\* second board member who has not signed can both sign.
C12_Witness ==
    \E x, y \in Addr : \E id \in ActionIds :
        /\ x # y
        /\ IsPendingId(id)
        /\ user_ids[x] \in SignerSet(id)
        /\ user_ids[y] \notin SignerSet(id)
        /\ sign(Storage, x, id).ok
        /\ sign(Storage, y, id).ok
        /\ unsign(Storage, y, id).ok

\* ---------------------------------------------------------------------- C13

\* C13 as stated: for every caller who may propose, a propose followed at
\* once by discardAction of the returned id by the same caller succeeds and
\* leaves the slot and the signer list of that id empty.
C13_ProposeDiscardRoundTrip ==
    \A caller \in Addr : \A action \in Proposals :
        \A rp \in {propose(Storage, caller, action)} :
           rp.ok =>
              \A rd \in {discard_action(rp.st, caller, rp.ret)} :
                 /\ rd.ok
                 /\ rd.st.action_data[rp.ret] = Nothing
                 /\ rd.st.action_signer_ids[rp.ret] = <<>>

\* C13, amended: for a caller who is a Proposer, a propose followed at once by
\* discardAction of the returned id by the same caller succeeds and leaves the
\* slot reading Action::Nothing and the signer list empty, both signer counts
\* 0 and the rest of the storage as before the propose; for a caller who is a
\* BoardMember the propose has signed the action, the discardAction returns an
\* error and the action stays pending with that one signature.
C13_ProposerRoundTrip ==
    \A caller \in Addr : \A action \in Proposals :
        \A rp \in {propose(Storage, caller, action)} :
           rp.ok =>
              \A rd \in {discard_action(rp.st, caller, rp.ret)} :
                 /\ RoleOf(caller) \in {"Proposer", "BoardMember"}
                 /\ RoleOf(caller) = "Proposer" =>
                       /\ rd.ok
                       /\ rd.st.action_data[rp.ret] = Nothing
                       /\ rd.st.action_signer_ids[rp.ret] = <<>>
                       /\ get_action_signer_count(rd.st, rp.ret) = 0
                       /\ get_action_valid_signer_count(rd.st, rp.ret) = 0
                       /\ rd.st = [Storage EXCEPT !.action_data = Append(@, Nothing)]
                 /\ RoleOf(caller) = "BoardMember" =>
                       /\ ~rd.ok
                       /\ Committed(rp.st, rd).action_data[rp.ret] = action
                       /\ Committed(rp.st, rd).action_signer_ids[rp.ret]
                             = <<user_ids[caller]>>

\* A proposer and a board member can both propose: the proposer can discard
\* what it proposes, the board member cannot.
C13_Witness ==
    \E x, y \in Addr : \E action \in Proposals :
        /\ RoleOf(x) = "Proposer"
        /\ RoleOf(y) = "BoardMember"
        /\ propose(Storage, x, action).ok
        /\ discard_action(propose(Storage, x, action).st, x,
                          propose(Storage, x, action).ret).ok
        /\ propose(Storage, y, action).ok
        /\ ~discard_action(propose(Storage, y, action).st, y,
                           propose(Storage, y, action).ret).ok

\* ---------------------------------------------------------------------- C14

\* C14: discardAction(id) by a Proposer or BoardMember succeeds exactly when
\* no signer of id is a board member now; signatures of users who have lost
\* the role do not block it; a successful call empties the slot and the raw
\* signer list of id and changes nothing else.
C14_DiscardNeedsNoValidSigner ==
    \A caller \in Addr : \A id \in ActionIds :
        \A r \in {discard_action(Storage, caller, id)} :
           RoleOf(caller) \in {"Proposer", "BoardMember"} =>
              /\ r.ok <=> (Cardinality(ValidSigners(id)) = 0)
              /\ r.ok =>
                    /\ r.st.action_signer_ids[id] = <<>>
                    /\ id <= Len(action_data) => r.st.action_data[id] = Nothing
                    /\ Len(r.st.action_data) = Len(action_data)
                    /\ \A other \in ActionIds \ {id} :
                          /\ r.st.action_signer_ids[other] = action_signer_ids[other]
                          /\ other <= Len(action_data)
                                => r.st.action_data[other] = action_data[other]
                    /\ [r.st EXCEPT !.action_data = action_data,
                                    !.action_signer_ids = action_signer_ids] = Storage

\* A pending action whose only signature is that of a user who has lost the
\* BoardMember role: a discardAction call succeeds on it.
C14_Witness ==
    \E id \in ActionIds : \E caller \in Addr :
        /\ IsPendingId(id)
        /\ SignerSet(id) # {}
        /\ ValidSigners(id) = {}
        /\ discard_action(Storage, caller, id).ok

\* ---------------------------------------------------------------------- C15

\* The stake ledger on its own: balances up to MaxStake, above the required
\* stake, next to the one kind of call that takes the BoardMember role away.

StakeMore ==
    /\ deployed
    /\ \E caller \in Addr, payment \in Amounts :
          /\ amount_staked[caller] < MaxStake
          /\ Call(stake(Storage, caller, payment))
    /\ UNCHANGED deployed

UnstakeAmounts == 0..(MaxStake + 1)

UnstakeSome ==
    /\ deployed
    /\ \E caller \in Addr, amount \in UnstakeAmounts :
          Call(unstake(Storage, caller, amount))
    /\ UNCHANGED deployed

Removals == {RemoveUser(x) : x \in Targets} \cup {SlashUser(x) : x \in Targets}

ProposeRemoval ==
    /\ deployed
    /\ action_data = <<>>
    /\ \E caller \in Addr, action \in Removals :
          Call(propose(Storage, caller, action))
    /\ UNCHANGED deployed

NextStake ==
    \/ Deploy
    \/ StakeMore
    \/ UnstakeSome
    \/ ProposeRemoval
    \/ PerformAction

StakeSpec == Init /\ [][NextStake]_vars

\* C15: unstake(amount) succeeds exactly when amount is at most the caller's
\* staked balance and, for a caller who is a board member, the balance minus
\* amount is at least required_stake_amount; a successful call lowers the
\* caller's balance by amount and changes nothing else.  A board member whose
\* balance is required_stake_amount cannot unstake a positive amount, and a
\* caller who is no board member can unstake the whole balance.
C15_UnstakeBoundary ==
    \A caller \in Addr : \A amount \in UnstakeAmounts :
        LET r == unstake(Storage, caller, amount)
            balance == amount_staked[caller]
        IN /\ r.ok <=> /\ amount <= balance
                       /\ RoleOf(caller) = "BoardMember"
                             => balance - amount >= required_stake_amount
           /\ r.ok => r.st = [Storage EXCEPT !.amount_staked[caller] = balance - amount]
           /\ (RoleOf(caller) = "BoardMember" /\ balance = required_stake_amount
                  /\ amount > 0) => ~r.ok
           /\ (RoleOf(caller) # "BoardMember" /\ amount = balance) =>
                  r.ok /\ r.st.amount_staked[caller] = 0

\* A user who lost the BoardMember role holds exactly the required stake and
\* can unstake all of it, while a board member holding more than the required
\* stake can unstake the surplus and not the whole balance.
C15_Witness ==
    /\ \E x \in Addr :
          /\ user_ids[x] # 0
          /\ RoleOf(x) = "None"
          /\ required_stake_amount >= 1
          /\ amount_staked[x] = required_stake_amount
          /\ unstake(Storage, x, amount_staked[x]).ok
    /\ \E y \in Addr :
          /\ RoleOf(y) = "BoardMember"
          /\ amount_staked[y] > required_stake_amount
          /\ unstake(Storage, y, amount_staked[y] - required_stake_amount).ok
          /\ ~unstake(Storage, y, amount_staked[y]).ok

\* ---------------------------------------------------------------------- C16

\* C16: a performAction call, by a caller who may perform, on a pending
\* ChangeQuorum(n) action that has reached the quorum while the contract is
\* not paused succeeds exactly when n is at most num_board_members; a
\* successful call sets the quorum to n, empties the slot and leaves
\* num_board_members, num_proposers and every role as they were; a failed
\* call leaves the quorum at its old value and the action pending with its
\* signers.
C16_ChangeQuorumWithinBoard ==
    \A c \in PerformCalls :
        LET id == c[2]
        IN (/\ IsPendingId(id)
            /\ action_data[id].kind = "ChangeQuorum"
            /\ ~pause_status
            /\ quorum_reached(Storage, id)
            /\ RoleOf(c[1]) \in {"Proposer", "BoardMember"})
           => \A r \in {PerformResult(c)} : \A T \in {Committed(Storage, r)} :
              /\ r.ok <=> (action_data[id].n <= num_board_members)
              /\ r.ok => /\ T.quorum = action_data[id].n
                         /\ T.action_data[id] = Nothing
                         /\ T.num_board_members = num_board_members
                         /\ T.num_proposers = num_proposers
                         /\ T.user_id_to_role = user_id_to_role
                         /\ T.user_ids = user_ids
              /\ ~r.ok => /\ T.quorum = quorum
                          /\ T.action_data[id] = action_data[id]
                          /\ T.action_signer_ids[id] = action_signer_ids[id]

\* A pending ChangeQuorum(n) with n above the board size has reached a quorum
\* of at least 1 on a contract that is not paused: the call fails after it
\* has emptied the slot.
C16_Witness ==
    \E c \in PerformCalls :
        /\ IsPendingId(c[2])
        /\ action_data[c[2]].kind = "ChangeQuorum"
        /\ action_data[c[2]].n > num_board_members
        /\ ~pause_status
        /\ quorum >= 1
        /\ quorum_reached(Storage, c[2])
        /\ RoleOf(c[1]) \in {"Proposer", "BoardMember"}
        /\ ~PerformResult(c).ok
        /\ PerformResult(c).st.action_data[c[2]] = Nothing

\* ---------------------------------------------------------------------- C17

\* C17: right after a successful propose the signer list of the new action
\* holds the caller's id and nothing else when the caller is a board member
\* and is empty when the caller is a proposer, and the signer list of every
\* other action is as it was.
C17_FreshActionSigners ==
    \A caller \in Addr : \A action \in Proposals :
        \A r \in {propose(Storage, caller, action)} :
           r.ok =>
              /\ r.ret = Len(action_data) + 1
              /\ RoleOf(caller) = "BoardMember" =>
                    /\ SignersAfter(r, r.ret) = {user_ids[caller]}
                    /\ r.st.action_signer_ids[r.ret] = <<user_ids[caller]>>
              /\ RoleOf(caller) = "Proposer" => SignersAfter(r, r.ret) = {}
              /\ \A other \in ActionIds \ {r.ret} :
                    r.st.action_signer_ids[other] = action_signer_ids[other]

\* A proposer and a board member can both propose while an earlier action is
\* pending with a signature and one before it has been emptied.
C17_Witness ==
    /\ \E x, y \in Addr : \E action \in Proposals :
          /\ RoleOf(x) = "Proposer"
          /\ RoleOf(y) = "BoardMember"
          /\ propose(Storage, x, action).ok
          /\ propose(Storage, y, action).ok
    /\ \E id \in ActionIds : IsPendingId(id) /\ SignerSet(id) # {}
    /\ \E id \in ActionIds : IsClearedId(id)

\* ---------------------------------------------------------------------- C18

\* C18: in every state reached after a successful init there is a board
\* member or a proposer (num_board_members + num_proposers > 0, and some
\* address whose role lets it propose); a performAction call on a RemoveUser
\* or SlashUser action that names the last such user returns an error and
\* changes nothing.
C18_SomeoneCanPropose ==
    deployed =>
        /\ num_board_members + num_proposers > 0
        /\ \E x \in Addr : can_propose(RoleOf(x))
        /\ \A c \in PerformCalls :
              LET id == c[2]
              IN (/\ IsPendingId(id)
                  /\ action_data[id].kind \in {"RemoveUser", "SlashUser"}
                  /\ RoleOf(action_data[id].addr) # "None"
                  /\ num_board_members + num_proposers = 1)
                 => \A r \in {PerformResult(c)} :
                       ~r.ok /\ Committed(Storage, r) = Storage

\* The only user with a role is named by a pending RemoveUser or SlashUser
\* action that has reached the quorum; the call fails after it has taken the
\* user's role.
C18_Witness ==
    \E c \in PerformCalls :
        /\ deployed
        /\ IsPendingId(c[2])
        /\ action_data[c[2]].kind \in {"RemoveUser", "SlashUser"}
        /\ RoleOf(action_data[c[2]].addr) # "None"
        /\ num_board_members + num_proposers = 1
        /\ can_perform_action(RoleOf(c[1]))
        /\ quorum_reached(Storage, c[2])
        /\ ~PerformResult(c).ok
        /\ PerformResult(c).st.num_board_members + PerformResult(c).st.num_proposers = 0

\* ---------------------------------------------------------------------- C19

Distinct(board) == {board[i] : i \in 1..Len(board)}

\* C19: init returns an error and leaves the storage empty when the board
\* list is empty, when the quorum exceeds its length, when it names an address
\* twice or when slash_amount exceeds required_stake; a successful init makes
\* every listed address a board member, num_board_members the number of
\* distinct listed addresses and num_proposers 0, and stores a slash_amount
\* that is at most required_stake_amount.  A contract on which no init has
\* succeeded has empty storage.
C19_InitValidates ==
    /\ ~deployed => Storage = EmptyStorage
    /\ deployed =>
          /\ slash_amount <= required_stake_amount
          /\ action_data = <<>> =>
                /\ num_proposers = 0
                /\ num_board_members = Cardinality({x \in Addr : RoleOf(x) = "BoardMember"})
    /\ ~deployed =>
          \A board \in InitBoards : \A q \in InitQuorums : \A s \in InitStakes :
              LET r == init(Storage, s[1], s[2], q, board)
                  T == Committed(Storage, r)
              IN /\ (\/ board = <<>>
                     \/ q > Len(board)
                     \/ Cardinality(Distinct(board)) < Len(board)
                     \/ s[2] > s[1])
                    => ~r.ok /\ T = EmptyStorage
                 /\ r.ok =>
                       /\ \A x \in Distinct(board) : user_role(T, x) = "BoardMember"
                       /\ \A x \in Addr \ Distinct(board) : user_role(T, x) = "None"
                       /\ T.num_board_members = Cardinality(Distinct(board))
                       /\ T.num_proposers = 0
                       /\ T.quorum = q
                       /\ T.slash_amount <= T.required_stake_amount
                       /\ T.required_stake_amount = s[1]
                       /\ T.slash_amount = s[2]

\* The contract right after a successful init with a board of two.
C19_Witness ==
    /\ deployed
    /\ action_data = <<>>
    /\ num_board_members = NumAddr
    /\ \A x \in Addr : RoleOf(x) = "BoardMember" /\ amount_staked[x] = 0
    /\ num_proposers = 0
    /\ quorum = NumAddr
    /\ slash_amount = required_stake_amount

\* ---------------------------------------------------------------------- C20

\* C20: a performAction call that executes a pending SlashUser(address)
\* action leaves the address with role None, its staked balance lower by
\* exactly slash_amount, slashed_tokens_amount higher by exactly slash_amount
\* and every other staked balance as it was.
C20_SlashMovesStakeToPool ==
    \A c \in PerformCalls :
        LET id == c[2]
            target == action_data[id].addr
        IN (/\ IsPendingId(id)
            /\ action_data[id].kind = "SlashUser")
           => \A r \in {PerformResult(c)} :
              r.ok =>
                 /\ user_role(r.st, target) = "None"
                 /\ r.st.amount_staked[target] = amount_staked[target] - slash_amount
                 /\ r.st.slashed_tokens_amount = slashed_tokens_amount + slash_amount
                 /\ \A x \in Addr \ {target} :
                       r.st.amount_staked[x] = amount_staked[x]
                 /\ r.st.action_data[id] = Nothing

\* A board member whose stake covers slash_amount is named by a pending
\* SlashUser action that has reached a quorum of at least 1: a call executes
\* it and fills the pool.
C20_Witness ==
    \E c \in PerformCalls :
        /\ IsPendingId(c[2])
        /\ action_data[c[2]].kind = "SlashUser"
        /\ RoleOf(action_data[c[2]].addr) = "BoardMember"
        /\ slash_amount >= 1
        /\ amount_staked[action_data[c[2]].addr] >= slash_amount
        /\ quorum >= 1
        /\ PerformResult(c).ok
        /\ PerformResult(c).st.slashed_tokens_amount = slashed_tokens_amount + slash_amount

\* ---------------------------------------------------------------------- C21

\* C21 as stated: executing RemoveUser(address) changes the role of that
\* user alone, to None, and leaves the ids, the id-to-address mapping and the
\* staked balances as they were; no step gives an assigned id to another
\* address.
C21_RemoveKeepsRegistry ==
    /\ [](\A c \in PerformCalls :
            LET id == c[2]
                target == action_data[id].addr
            IN (IsPendingId(id) /\ action_data[id].kind = "RemoveUser") =>
                  \A r \in {PerformResult(c)} :
                     r.ok =>
                        /\ r.st.user_ids = user_ids
                        /\ r.st.user_addresses = user_addresses
                        /\ r.st.user_count = user_count
                        /\ r.st.amount_staked = amount_staked
                        /\ user_role(r.st, target) = "None"
                        /\ \A x \in Addr \ {target} :
                              user_role(r.st, x) = RoleOf(x))
    /\ [][\A x \in Addr : user_ids[x] # 0 => user_ids'[x] = user_ids[x]]_vars

\* C21, amended: executing RemoveUser(address) leaves every staked balance
\* and the role of every other address as they were and the address with role
\* None; when the address is registered its id and the whole id-to-address
\* mapping stay as they were, and when it was never registered the execution
\* registers it under the next free id, changing no other entry.  No step
\* takes an id from an address or gives it to another one, and no two
\* addresses share an id.
C21_RemoveKeepsUsers ==
    /\ [](/\ \A c \in PerformCalls :
                LET id == c[2]
                    target == action_data[id].addr
                IN (IsPendingId(id) /\ action_data[id].kind = "RemoveUser") =>
                      \A r \in {PerformResult(c)} :
                         r.ok =>
                            /\ r.st.amount_staked = amount_staked
                            /\ user_role(r.st, target) = "None"
                            /\ \A x \in Addr \ {target} :
                                  user_role(r.st, x) = RoleOf(x)
                            /\ user_ids[target] # 0 =>
                                  /\ r.st.user_ids = user_ids
                                  /\ r.st.user_addresses = user_addresses
                                  /\ r.st.user_count = user_count
                                  /\ r.st.user_id_to_role =
                                        [user_id_to_role EXCEPT ![user_ids[target]] = "None"]
                            /\ user_ids[target] = 0 =>
                                  /\ r.st.user_count = user_count + 1
                                  /\ r.st.user_ids =
                                        [user_ids EXCEPT ![target] = user_count + 1]
                                  /\ r.st.user_addresses =
                                        [user_addresses EXCEPT ![user_count + 1] = target]
          /\ \A x, y \in Addr :
                (user_ids[x] # 0 /\ user_ids[x] = user_ids[y]) => x = y
          /\ \A x \in Addr :
                user_ids[x] # 0 =>
                    /\ user_ids[x] \in RegisteredIds
                    /\ user_addresses[user_ids[x]] = x)
    /\ [][/\ \A x \in Addr : user_ids[x] # 0 => user_ids'[x] = user_ids[x]
          /\ \A i \in RegisteredIds : user_addresses'[i] = user_addresses[i]
          /\ user_count' >= user_count]_vars

\* An executed action has taken the role of a registered user who keeps the
\* id and a stake of required_stake_amount.
C21_Witness ==
    /\ \E id \in ActionIds : IsClearedId(id)
    /\ \E x \in Addr :
          /\ user_ids[x] # 0
          /\ user_addresses[user_ids[x]] = x
          /\ RoleOf(x) = "None"
          /\ required_stake_amount >= 1
          /\ amount_staked[x] = required_stake_amount

\* ---------------------------------------------------------------------- C22

Payments == 0..MaxStake

\* C22: stake(payment) succeeds only for a caller whose role is BoardMember
\* and then raises the caller's staked balance by exactly payment, changing
\* nothing else; a call by a proposer or by an address with role None returns
\* an error and leaves every staked balance as it was.
C22_OnlyBoardMembersStake ==
    \A caller \in Addr : \A payment \in Payments :
        \A r \in {stake(Storage, caller, payment)} :
           /\ r.ok =>
                 /\ RoleOf(caller) = "BoardMember"
                 /\ r.st.amount_staked[caller] = amount_staked[caller] + payment
                 /\ r.st = [Storage EXCEPT !.amount_staked[caller] = @ + payment]
           /\ RoleOf(caller) \in {"Proposer", "None"} =>
                 /\ ~r.ok
                 /\ Committed(Storage, r).amount_staked = amount_staked

\* A proposer, who cannot stake, next to a board member who has staked and
\* can stake more.
C22_Witness ==
    \E x, y \in Addr :
        /\ RoleOf(x) = "Proposer"
        /\ \A payment \in Payments : ~stake(Storage, x, payment).ok
        /\ RoleOf(y) = "BoardMember"
        /\ amount_staked[y] >= 1
        /\ \A payment \in Payments : stake(Storage, y, payment).ok

\* ---------------------------------------------------------------------- C24

\* C24: in every reachable state the signer list of every action id holds no
\* id twice and only ids of registered users (never id 0), and the signer
\* list of every id that is not pending (never proposed, executed or
\* discarded) is empty.
C24_SignerSetsWellFormed ==
    \A id \in ActionIds :
        /\ Cardinality(SignerSet(id)) = Len(action_signer_ids[id])
        /\ SignerSet(id) \subseteq RegisteredIds
        /\ 0 \notin SignerSet(id)
        /\ ~IsPendingId(id) => action_signer_ids[id] = <<>>

\* Every registered user has signed a pending action that follows an emptied
\* slot.
C24_Witness ==
    \E i, j \in ActionIds :
        /\ i < j
        /\ IsClearedId(i)
        /\ IsPendingId(j)
        /\ user_count = NumAddr
        /\ SignerSet(j) = RegisteredIds

\* ---------------------------------------------------------------------- C25

\* C25: every SlashUser action that a performAction call executes names an
\* address whose role is BoardMember at the time of the call.
C25_SlashTargetsBoardMember ==
    \A c \in PerformCalls :
        (/\ IsPendingId(c[2])
         /\ action_data[c[2]].kind = "SlashUser"
         /\ PerformResult(c).ok)
        => RoleOf(action_data[c[2]].addr) = "BoardMember"

\* ---------------------------------------------------------------------- C26

\* C26: whenever a performAction call executes an action, at least one id
\* in the signer list of that action has role BoardMember at that time.
C26_ExecutionNeedsBoardSigner ==
    \A c \in PerformCalls :
        (IsPendingId(c[2]) /\ PerformResult(c).ok) => ValidSigners(c[2]) # {}

\* ---------------------------------------------------------------------- C27

\* The contract of a board that removes, demotes and re-admits a member
\* while other actions wait: a log one action longer than in Spec, holding
\* only the actions that change the member's role.

RoleChanges ==
    {AddBoardMember(x) : x \in Targets} \cup {AddProposer(x) : x \in Targets}
        \cup {RemoveUser(x) : x \in Targets}

ProposeRoleChange ==
    /\ deployed
    /\ Len(action_data) < MaxActions + 1
    /\ \E caller \in Addr, action \in RoleChanges :
          Call(propose(Storage, caller, action))
    /\ UNCHANGED deployed

\* The ids of the slots of the log.
LogIds == 1..Len(action_data)

SignLogged ==
    /\ deployed
    /\ \E caller \in Addr, action_id \in LogIds :
          Call(sign(Storage, caller, action_id))
    /\ UNCHANGED deployed

PerformLogged ==
    /\ deployed
    /\ \E caller \in Addr, action_id \in LogIds, wraps \in BOOLEAN :
          Call(perform_action_endpoint(Storage, caller, action_id, wraps))
    /\ UNCHANGED deployed

NextRejoin ==
    \/ Deploy
    \/ Stake
    \/ Unstake
    \/ ProposeRoleChange
    \/ SignLogged
    \/ PerformLogged

RejoinSpec == Init /\ [][NextRejoin]_vars

\* C27: a step that takes the BoardMember role from a signer of a pending
\* action leaves the signer's id in the raw signer list of that action; a
\* step that makes a user BoardMember whose id is in the raw signer list of a
\* pending action makes that signature count again, raising the valid signer
\* count of the action by one, without a sign call and whatever the user's
\* staked balance is then.
C27_SignatureOutlivesRole ==
    [][\A id \in ActionIds : \A u \in SignerSet(id) :
          (IsPendingId(id) /\ action_data'[id] = action_data[id]) =>
             /\ (user_id_to_role[u] = "BoardMember"
                    /\ user_id_to_role'[u] # "BoardMember")
                => /\ action_signer_ids'[id] = action_signer_ids[id]
                   /\ get_action_signer_count(Storage, id)'
                         = get_action_signer_count(Storage, id)
                   /\ get_action_valid_signer_count(Storage, id)'
                         = get_action_valid_signer_count(Storage, id) - 1
             /\ (user_id_to_role[u] # "BoardMember"
                    /\ user_id_to_role'[u] = "BoardMember")
                => /\ action_signer_ids'[id] = action_signer_ids[id]
                   /\ get_action_valid_signer_count(Storage, id)'
                         = get_action_valid_signer_count(Storage, id) + 1
                   /\ amount_staked' = amount_staked]_vars

\* A user whose id was pushed onto the signer list of a pending action by
\* sign, which asks for the required stake, has since lost the BoardMember
\* role and unstaked everything; an AddBoardMember action naming the user can
\* be executed, and executing it makes the old signature count again.
C27_Witness ==
    \E x \in Addr : \E id, readmit \in ActionIds : \E c \in PerformCalls :
        /\ IsPendingId(id)
        /\ Len(action_signer_ids[id]) = 2
        /\ action_signer_ids[id][2] = user_ids[x]
        /\ RoleOf(x) # "BoardMember"
        /\ required_stake_amount >= 1
        /\ amount_staked[x] = 0
        /\ IsPendingId(readmit)
        /\ action_data[readmit] = AddBoardMember(x)
        /\ c[2] = readmit
        /\ PerformResult(c).ok
        /\ get_action_valid_signer_count(Storage, id) = 1
        /\ get_action_valid_signer_count(PerformResult(c).st, id) = 2
        /\ ~has_enough_stake(PerformResult(c).st, x)

\* ------------------------------------------------ batch deduplication index

\* The deduplication index of the transfer batches and the execution of a
\* batch action are modelled on sections 4.6 and 4.7 of the specification;
\* they propose through propose_action and clear through clear_action.

\* A key that has an entry is rejected as a duplicate; otherwise the action is
\* proposed and its id recorded under the key.
propose_or_get(S, caller, batch_id, fingerprint, action) ==
    IF S.batch_index[<<batch_id, fingerprint>>] # 0 THEN Err(S)
    ELSE LET r == propose_action(S, caller, action)
         IN IF ~r.ok THEN r
            ELSE Ok([r.st EXCEPT !.batch_index[<<batch_id, fingerprint>>] = r.ret],
                    r.ret)

propose_batch_transfer_tokens(S, caller, batch_id, fingerprint) ==
    propose_or_get(S, caller, batch_id, fingerprint,
                   BatchTransferTokens(batch_id, fingerprint))

\* The action ids recorded for a batch id, under any fingerprint.
batch_action_ids(S, batch_id) ==
    {S.batch_index[<<batch_id, f>>] : f \in Fingerprints} \ {0}

RECURSIVE clear_actions(_, _)
clear_actions(S, ids) ==
    IF ids = {} THEN S
    ELSE LET id == CHOOSE i \in ids : TRUE
         IN clear_actions(clear_action(S, id), ids \ {id})

\* Every other action recorded for the batch id is cleared and the bucket of
\* the batch id is emptied.
clear_batch(S, batch_id, action_id) ==
    LET S1 == clear_actions(S, batch_action_ids(S, batch_id) \ {action_id})
    IN [S1 EXCEPT !.batch_index =
                     [k \in BatchKeys |-> IF k[1] = batch_id THEN 0 ELSE @[k]]]

\* performAction with the BatchTransferTokens arm: the checks and the clear
\* of perform_action_endpoint and perform_action, then the effect on the
\* index.  The call to the multi-transfer service writes nothing here.
perform_batch_action(S, caller, action_id, wraps) ==
    IF action_id > Len(S.action_data) THEN perform_action_endpoint(S, caller, action_id, wraps)
    ELSE IF S.action_data[action_id].kind # "BatchTransferTokens"
    THEN perform_action_endpoint(S, caller, action_id, wraps)
    ELSE
    LET caller_id == get_user_id(S, caller)
        caller_role == get_user_id_to_role(S, caller_id)
        action == S.action_data[action_id]
        S1 == clear_action(S, action_id)
    IN IF ~can_perform_action(caller_role) THEN Err(S)
       ELSE IF ~quorum_reached(S, action_id) THEN Err(S)
       ELSE IF S.pause_status THEN Err(S)
       ELSE Ok(clear_batch(S1, action.n, action_id), 0)

ProposeBatch ==
    /\ deployed
    /\ Len(action_data) < MaxActions + 1
    /\ \E caller \in Addr, k \in BatchKeys :
          Call(propose_batch_transfer_tokens(Storage, caller, k[1], k[2]))
    /\ UNCHANGED deployed

UnsignLogged ==
    /\ deployed
    /\ \E caller \in Addr, action_id \in LogIds :
          Call(unsign(Storage, caller, action_id))
    /\ UNCHANGED deployed

PerformBatch ==
    /\ deployed
    /\ \E caller \in Addr, action_id \in LogIds, wraps \in BOOLEAN :
          Call(perform_batch_action(Storage, caller, action_id, wraps))
    /\ UNCHANGED deployed

DiscardLogged ==
    /\ deployed
    /\ \E caller \in Addr, action_id \in LogIds :
          Call(discard_action(Storage, caller, action_id))
    /\ UNCHANGED deployed

NextBatch ==
    \/ Deploy
    \/ Stake
    \/ ProposeBatch
    \/ SignLogged
    \/ UnsignLogged
    \/ PerformBatch
    \/ DiscardLogged

BatchSpec == Init /\ [][NextBatch]_vars

\* The pending actions of the log that carry the key.
PendingForKey(k) ==
    {i \in LogIds : /\ action_data[i].kind = "BatchTransferTokens"
                    /\ action_data[i].n = k[1]
                    /\ action_data[i].fingerprint = k[2]}

\* C23: at most one pending action of the log carries a given (batch id,
\* fingerprint) key, and while a pending action carries a key, a proposal of
\* that key by any caller is rejected and leaves the log as it is.
C23_OnePendingPerKey ==
    \A k \in BatchKeys :
       /\ Cardinality(PendingForKey(k)) <= 1
       /\ PendingForKey(k) # {} =>
             \A caller \in Addr :
                \A r \in {propose_batch_transfer_tokens(Storage, caller, k[1], k[2])} :
                   /\ ~r.ok
                   /\ Committed(Storage, r).action_data = action_data

\* A key proposed after a batch action was executed: an earlier slot is
\* cleared and no key points at it (a discarded action keeps its entry), a
\* later slot holds the one pending action of the key, and a caller who may
\* propose is turned away with the same key.
C23_Witness ==
    \E k \in BatchKeys, i \in LogIds, j \in LogIds, caller \in Addr :
       /\ j < i
       /\ IsClearedId(j)
       /\ PendingForKey(k) = {i}
       /\ batch_index[k] = i
       /\ \A other \in BatchKeys \ {k} : batch_index[other] = 0
       /\ can_propose(user_role(Storage, caller))
       /\ ~propose_batch_transfer_tokens(Storage, caller, k[1], k[2]).ok

====
